---- MODULE Spec2Model ----
(***************************************************************************)
(* Verification model of the mcp-typescript-simple canary repository.      *)
(*                                                                         *)
(* Part 1 (specification Spec): the runtime interface-stability probes.    *)
(* The catalog is the list of `it` blocks of                               *)
(* test/interface-stability.test.ts and of test/type-compatibility.test.ts *)
(* (src/unnamed/part_007); an entry is one `it` block and an assertion is  *)
(* one statement of its body that can fail (an expect, or a call into the  *)
(* dependency).  The installed dependency is an input: which symbols it    *)
(* exports and how it behaves.                                             *)
(*                                                                         *)
(* Part 2 (specification SpecStatic): the compile-time units of            *)
(* test/type-compatibility.test.ts.                                        *)
(***************************************************************************)
EXTENDS Naturals, Integers, Sequences, FiniteSets, TLC

(***************************************************************************)
(* Bounds of the model.                                                    *)
(***************************************************************************)
\* at most this many of the imported symbols are missing from the dependency
MaxMissing == 1
\* at most this many type fragments changed their compile verdict
MaxDrift == 1
\* The number of runs of the catalog against the same dependency.
MaxRuns == 2
\* The number of add() calls on one registry.
MaxTools == 2
\* The number of shutdown signals sent to the server.
MaxSignals == 2
\* The number of sessions the HTTP server issues.
MaxSessions == 2
\* The number of requests sent to /mcp.
MaxRequests == 3
\* The number of invocations of the Vercel handler in one process.
MaxInvocations == 3
\* The largest maxAttempts the health polling is called with.
MaxAttempts == 3

(***************************************************************************)
(* The dependency's exported symbols the tests import.                     *)
(***************************************************************************)
Symbols == {"defineTool", "ToolRegistry", "EnvironmentConfig", "LLMManager"}

NoSymbol == "-"

(***************************************************************************)
(* Ways the installed dependency can deviate from the recorded contract    *)
(* ("none": it conforms).                                                  *)
(***************************************************************************)
Faults ==
  { "none",
    "tool_fields",      \* defineTool() returns another name and description
    "has_false",        \* ToolRegistry.has() answers false for a held tool
    "no_merge",         \* ToolRegistry has no merge() method
    "call_rejects",     \* ToolRegistry.call() rejects
    "call_hangs",       \* ToolRegistry.call() never settles
    "logcfg_throws",    \* EnvironmentConfig.logConfiguration() throws
    "init_resolves",    \* LLMManager.initialize() resolves
    "init_other_msg",   \* LLMManager.initialize() rejects with another message
    "init_hangs",       \* LLMManager.initialize() never settles
    "handler_hangs" }   \* tool.handler() never settles

Dependencies ==
  { [exported |-> Symbols \ m, fault |-> f] :
      m \in {x \in SUBSET Symbols : Cardinality(x) <= MaxMissing}, f \in Faults }

(***************************************************************************)
(* Assertions.  sym: the imported symbol the statement dereferences        *)
(* (NoSymbol: none); op: the operation; exp: the outcome kind the test     *)
(* expects; async: the statement awaits a promise.                         *)
(***************************************************************************)
Sync(sym, op) == [sym |-> sym, op |-> op, exp |-> "returns", async |-> FALSE]

Await(sym, op, exp) == [sym |-> sym, op |-> op, exp |-> exp, async |-> TRUE]

Entry(title, symbol, steps) == [title |-> title, symbol |-> symbol, steps |-> steps]

InterfaceStabilityTests ==
  << Entry("should export defineTool function", "defineTool",
       << Sync("defineTool", "typeof") >>),
     Entry("should support tool definition with Zod schema", "defineTool",
       << Sync("defineTool", "defineTool"), Sync("defineTool", "tool.name"),
          Sync("defineTool", "tool.description"), Sync("defineTool", "tool.inputSchema"),
          Sync("defineTool", "tool.handler"), Sync("defineTool", "typeof tool.handler") >>),
     Entry("should support optional input fields", "defineTool",
       << Sync("defineTool", "defineTool"), Sync("defineTool", "tool.inputSchema") >>),
     Entry("should support enum input fields", "defineTool",
       << Sync("defineTool", "defineTool"), Sync("defineTool", "tool.inputSchema") >>),
     Entry("should export ToolRegistry class", "ToolRegistry",
       << Sync("ToolRegistry", "typeof"), Sync("ToolRegistry", "class.name") >>),
     Entry("should support tool registration via add() method", "ToolRegistry",
       << Sync("ToolRegistry", "new"), Sync("defineTool", "defineTool"),
          Sync("ToolRegistry", "typeof add"), Sync("ToolRegistry", "add"),
          Sync("ToolRegistry", "has") >>),
     Entry("should support tool lookup via get() method", "ToolRegistry",
       << Sync("ToolRegistry", "new"), Sync("defineTool", "defineTool"),
          Sync("ToolRegistry", "add"), Sync("ToolRegistry", "get"),
          Sync("ToolRegistry", "retrieved"), Sync("ToolRegistry", "retrieved.name") >>),
     Entry("should support tool existence check via has() method", "ToolRegistry",
       << Sync("ToolRegistry", "new"), Sync("ToolRegistry", "typeof has"),
          Sync("ToolRegistry", "has nonexistent") >>),
     Entry("should support tool listing via list() method", "ToolRegistry",
       << Sync("ToolRegistry", "new"), Sync("defineTool", "defineTool"),
          Sync("defineTool", "defineTool"), Sync("ToolRegistry", "add"),
          Sync("ToolRegistry", "add"), Sync("ToolRegistry", "list"),
          Sync("ToolRegistry", "isArray"), Sync("ToolRegistry", "length"),
          Sync("ToolRegistry", "tools[0].name"), Sync("ToolRegistry", "tools[0].description"),
          Sync("ToolRegistry", "tools[0].inputSchema") >>),
     Entry("should support registry merging via merge() method", "ToolRegistry",
       << Sync("ToolRegistry", "new"), Sync("ToolRegistry", "new"),
          Sync("defineTool", "defineTool"), Sync("ToolRegistry", "add"),
          Sync("defineTool", "defineTool"), Sync("ToolRegistry", "add"),
          Sync("ToolRegistry", "typeof merge"), Sync("ToolRegistry", "merge"),
          Sync("ToolRegistry", "has"), Sync("ToolRegistry", "has") >>),
     Entry("should support async tool invocation via call() method", "ToolRegistry",
       << Sync("ToolRegistry", "new"), Sync("defineTool", "defineTool"),
          Sync("ToolRegistry", "add"), Sync("ToolRegistry", "typeof call"),
          Await("ToolRegistry", "call", "resolves"),
          Sync("ToolRegistry", "result.content"), Sync("ToolRegistry", "isArray") >>),
     Entry("should export EnvironmentConfig class", "EnvironmentConfig",
       << Sync("EnvironmentConfig", "typeof"), Sync("EnvironmentConfig", "class.name") >>),
     Entry("should support get() static method", "EnvironmentConfig",
       << Sync("EnvironmentConfig", "typeof get"), Sync("EnvironmentConfig", "get"),
          Sync("EnvironmentConfig", "config"), Sync("EnvironmentConfig", "config.NODE_ENV") >>),
     Entry("should support getTransportMode() static method", "EnvironmentConfig",
       << Sync("EnvironmentConfig", "typeof getTransportMode"),
          Sync("EnvironmentConfig", "getTransportMode"),
          Sync("EnvironmentConfig", "typeof mode"), Sync("EnvironmentConfig", "mode") >>),
     Entry("should support logConfiguration() static method", "EnvironmentConfig",
       << Sync("EnvironmentConfig", "typeof logConfiguration"),
          Sync("EnvironmentConfig", "logConfiguration") >>),
     Entry("should export LLMManager class", "LLMManager",
       << Sync("LLMManager", "typeof"), Sync("LLMManager", "class.name") >>),
     Entry("should support initialize() method", "LLMManager",
       << Sync("LLMManager", "new"), Sync("LLMManager", "typeof initialize"),
          Await("LLMManager", "initialize", "rejects") >>),
     Entry("should support getAvailableProviders() method", "LLMManager",
       << Sync("LLMManager", "new"), Sync("LLMManager", "typeof getAvailableProviders"),
          Sync("LLMManager", "getAvailableProviders"), Sync("LLMManager", "isArray") >>),
     Entry("should support isProviderAvailable() method", "LLMManager",
       << Sync("LLMManager", "new"), Sync("LLMManager", "typeof isProviderAvailable"),
          Sync("LLMManager", "isProviderAvailable"), Sync("LLMManager", "typeof hasAnthropic") >>)
  >>

TypeCompatibilityTests ==
  << Entry("should accept valid tool definitions", NoSymbol,
       << Sync(NoSymbol, "local") >>),
     Entry("should support optional input fields in type", NoSymbol,
       << Sync(NoSymbol, "local") >>),
     Entry("should support enum input fields in type", NoSymbol,
       << Sync(NoSymbol, "local") >>),
     Entry("should infer input type from Zod schema", "defineTool",
       << Sync("defineTool", "defineTool"), Sync("defineTool", "tool") >>),
     Entry("should infer complex nested types", "defineTool",
       << Sync("defineTool", "defineTool"), Sync("defineTool", "tool") >>),
     Entry("should export LLMProvider type", NoSymbol,
       << Sync(NoSymbol, "local") >>),
     Entry("should export LLMRequest type with required fields", NoSymbol,
       << Sync(NoSymbol, "local") >>),
     Entry("should export LLMResponse type with required fields", NoSymbol,
       << Sync(NoSymbol, "local"), Sync(NoSymbol, "local") >>),
     Entry("should export AnyModel type", NoSymbol,
       << Sync(NoSymbol, "local"), Sync(NoSymbol, "local"), Sync(NoSymbol, "local") >>),
     Entry("should support text content type", "defineTool",
       << Sync("defineTool", "defineTool"), Await("defineTool", "handler", "resolves"),
          Sync("defineTool", "content[0].type"), Sync("defineTool", "content[0].text") >>),
     Entry("should support error flag in result", "defineTool",
       << Sync("defineTool", "defineTool"), Await("defineTool", "handler", "resolves"),
          Sync("defineTool", "result.isError") >>),
     Entry("should support multiple content items", "defineTool",
       << Sync("defineTool", "defineTool"), Await("defineTool", "handler", "resolves"),
          Sync("defineTool", "content.length") >>),
     Entry("should prevent registering tools with wrong input types", "defineTool",
       << Sync("defineTool", "defineTool"), Sync("defineTool", "tool") >>),
     Entry("should prevent missing required fields", "defineTool",
       << Sync("defineTool", "defineTool"), Sync("defineTool", "tool") >>)
  >>

\* The test files: each is run by its own worker, its `it` blocks in order.
Files == {"interface", "types"}

Catalog(f) == IF f = "interface" THEN InterfaceStabilityTests ELSE TypeCompatibilityTests

EntryIds == { <<"interface", k>> : k \in 1..Len(InterfaceStabilityTests) } \cup
            { <<"types", k>> : k \in 1..Len(TypeCompatibilityTests) }

EntryOf(e) == Catalog(e[1])[e[2]]

StepsOf(e) == EntryOf(e).steps

\* Variant: the path names the export only.
SymbolPathExportOnly(e) == <<e[1], EntryOf(e).symbol>>

\* Where the probed symbol lives: the test file, the export the describe
\* block is about and the member or aspect the `it` block names.
SymbolPath(e) == <<e[1], EntryOf(e).symbol, EntryOf(e).title>>

\* The imported symbols the body of entry e dereferences.
Uses(e) == { StepsOf(e)[i].sym : i \in 1..Len(StepsOf(e)) } \ {NoSymbol}

(***************************************************************************)
(* What the installed dependency d does when statement s runs: the outcome *)
(* kind, and whether the value or message satisfies the expectation's      *)
(* matcher (toBe, toBeDefined, toThrow(substring), ...).                   *)
(***************************************************************************)
Outcome(kind, ok) == [kind |-> kind, ok |-> ok]

\* The statement dereferences an imported symbol the dependency does not export.
Unresolved(s, d) == s.sym # NoSymbol /\ s.sym \notin d.exported

\* Variant: a missing export makes the import of the whole module fail, so
\* every statement that touches the dependency throws.
BehaviourImportFails(s, d) ==
  IF d.exported # Symbols THEN Outcome("throws", TRUE)
  ELSE IF s.op = "initialize" THEN Outcome("rejects", TRUE)
  ELSE IF s.op \in {"call", "handler"} THEN Outcome("resolves", TRUE)
  ELSE Outcome("returns", TRUE)

Behaviour(s, d) ==
  IF Unresolved(s, d)
    THEN IF s.op = "typeof"
           THEN Outcome("returns", FALSE)      \* typeof undefined is 'undefined'
           ELSE Outcome("throws", TRUE)        \* TypeError: undefined is not a function
  ELSE IF s.op = "initialize"
    THEN CASE d.fault = "init_resolves"  -> Outcome("resolves", TRUE)
           [] d.fault = "init_other_msg" -> Outcome("rejects", FALSE)
           [] d.fault = "init_hangs"     -> Outcome("hangs", TRUE)
           [] OTHER                      -> Outcome("rejects", TRUE)
  ELSE IF s.op = "call"
    THEN CASE d.fault = "call_rejects" -> Outcome("rejects", TRUE)
           [] d.fault = "call_hangs"   -> Outcome("hangs", TRUE)
           [] OTHER                    -> Outcome("resolves", TRUE)
  ELSE IF s.op = "handler"
    THEN IF d.fault = "handler_hangs" THEN Outcome("hangs", TRUE)
                                      ELSE Outcome("resolves", TRUE)
  ELSE IF s.op = "logConfiguration"
    THEN IF d.fault = "logcfg_throws" THEN Outcome("throws", TRUE)
                                      ELSE Outcome("returns", TRUE)
  ELSE IF s.op = "merge"
    THEN IF d.fault = "no_merge" THEN Outcome("throws", TRUE)
                                 ELSE Outcome("returns", TRUE)
  ELSE IF s.op = "typeof merge"
    THEN Outcome("returns", d.fault # "no_merge")
  ELSE IF s.op = "has"
    THEN Outcome("returns", d.fault # "has_false")
  ELSE IF s.op \in {"tool.name", "tool.description"}
    THEN Outcome("returns", d.fault # "tool_fields")
  ELSE Outcome("returns", TRUE)

(***************************************************************************)
(* expect(): an assertion is violated when the outcome is of another kind  *)
(* than expected, or of the expected kind but rejected by the matcher.     *)
(***************************************************************************)
\* Variant: only the outcome kind is compared.
MismatchKindOnly(s, b) == b.kind # s.exp

Mismatch(s, b) == b.kind # s.exp \/ ~b.ok

\* The diagnostic of a violated assertion: which assertion, expected and
\* actual outcome kind, and what went wrong.
Diagnostic(i, s, b, d) ==
  [assertion |-> i, expected |-> s.exp, actual |-> b.kind,
   note |-> IF Unresolved(s, d) THEN "not exported"
            ELSE IF b.kind # s.exp THEN "kind" ELSE "predicate"]

TimedOutDiagnostic(i, s) ==
  [assertion |-> i, expected |-> s.exp, actual |-> "none", note |-> "timed out"]

\* Variant: the body goes on after a failed assertion.
EndsEntryAtLast(i, n, failed) == i = n

\* A failed expect throws: the body of the `it` block ends at assertion i when
\* it failed, or when it was the last of the n statements.
EndsEntry(i, n, failed) == failed \/ i = n

(***************************************************************************)
(* The compile-time units of test/type-compatibility.test.ts: one typed    *)
(* fragment each.  expectError: the fragment is preceded by a              *)
(* @ts-expect-error directive.                                             *)
(***************************************************************************)
Unit(id, expectError) == [id |-> id, expectError |-> expectError]

TypeCheckUnits ==
  << Unit("validTool: ToolDefinition<{ input: string }>", FALSE),
     Unit("tool: ToolDefinition<{ required: string; optional?: string }>", FALSE),
     Unit("tool: ToolDefinition<{ format: Format }>", FALSE),
     Unit("typedMessage: string, typedCount: number | undefined", FALSE),
     Unit("nested: string, array: number[], optionalBool: boolean | undefined", FALSE),
     Unit("providers: LLMProvider[]", FALSE),
     Unit("request: LLMRequest", FALSE),
     Unit("response: LLMResponse", FALSE),
     Unit("claudeModel, openaiModel, geminiModel: AnyModel", FALSE),
     Unit("text content handler result", FALSE),
     Unit("isError handler result", FALSE),
     Unit("multiple content handler result", FALSE),
     Unit("num: number = count", FALSE),
     Unit("str: string = count", TRUE),
     Unit("value: string = required", FALSE) >>

UnitIds == 1..Len(TypeCheckUnits)

\* Variant: the directive is ignored and every fragment is expected to compile.
ExpectedOutcomeNoDirective(u) == "must-compile"

ExpectedOutcome(u) == IF u.expectError THEN "must-fail-to-compile" ELSE "must-compile"

\* The fragments that type-check against the recorded contract.
Baseline == { k \in UnitIds : ~TypeCheckUnits[k].expectError }

\* The sets of fragments that type-check against an installed version whose
\* declarations drifted in at most MaxDrift units.
Declarations ==
  { (Baseline \ x) \cup (x \ Baseline) :
      x \in {y \in SUBSET UnitIds : Cardinality(y) <= MaxDrift} }

\* verify(unit): does the compile verdict match the unit's expectation.
Verify(u, accepted) ==
  \/ ExpectedOutcome(u) = "must-compile" /\ accepted
  \/ ExpectedOutcome(u) = "must-fail-to-compile" /\ ~accepted

(***************************************************************************)
(* ToolRegistry, as the tests and the entry points use it.  A registry is  *)
(* the list of its tools in the order they came in.                        *)
(***************************************************************************)
Tool(name, description) == [name |-> name, description |-> description]

\* src/tools/current-timestamp.ts
currentTimestampTool ==
  Tool("current-timestamp",
       "Get current timestamp with optional timezone and format specification")

\* The tools of the registry tests.
TestTools ==
  { Tool("tool1", "Tool 1"), Tool("tool2", "Tool 2"),
    Tool("lookup-test", "Lookup test"), currentTimestampTool }

ToolNamesOf(ts) == { x.name : x \in ts }

Undefined == [name |-> "undefined", description |-> "undefined"]

NewToolRegistry == << >>

list(r) == r

names(r) == { r[i].name : i \in 1..Len(r) }

has(r, n) == n \in names(r)

get(r, n) ==
  IF has(r, n) THEN r[CHOOSE i \in 1..Len(r) : r[i].name = n] ELSE Undefined

\* Variant: the registry holds the last tool added only.
addKeepsLast(r, x) == << x >>

\* add(tool): the tool comes last.  What the package does with a tool of a
\* name already held is not pinned by the tests; here it takes the place of
\* the one held, so that the name stays held either way.
add(r, x) ==
  IF has(r, x.name)
    THEN [i \in 1..Len(r) |-> IF r[i].name = x.name THEN x ELSE r[i]]
    ELSE Append(r, x)

RECURSIVE addAll(_, _)
addAll(r, ts) == IF ts = << >> THEN r ELSE addAll(add(r, Head(ts)), Tail(ts))

\* Variant: the registry takes the place of the one merged into.
mergeReplaces(r1, r2) == r2

\* r1.merge(r2): every tool of r2 is added to r1.
merge(r1, r2) == addAll(r1, list(r2))

\* createCanaryTools()
createCanaryTools == add(NewToolRegistry, currentTimestampTool)

\* The registry of @mcp-typescript-simple/example-tools-basic: the tools the
\* system test expects of it.
basicTools ==
  << Tool("hello", "hello"), Tool("echo", "echo"), Tool("current-time", "current-time") >>

\* createLLMTools(llmManager): the LLM tools the system test names.
llmTools ==
  << Tool("chat", "chat"), Tool("analyze", "analyze"),
     Tool("summarize", "summarize"), Tool("explain", "explain") >>

\* The registry main() and initializeServer() build before the LLM tools.
StartupRegistry == merge(merge(NewToolRegistry, basicTools), createCanaryTools)

RegIds == {"registry1", "registry2"}

(***************************************************************************)
(* The entry points: main() of src/index.ts and initializeServer() of      *)
(* api/index.ts.  A step is one statement (or group of statements) of the  *)
(* function that can throw.                                                *)
(***************************************************************************)
EntryPoints == {"main", "vercel"}

MainSteps ==
  << "logger",         \* LoggerProvider check and initializeLoggerProvider()
     "config",         \* EnvironmentConfig.get(), getTransportMode(), logConfiguration()
     "basic",          \* new ToolRegistry(); toolRegistry.merge(basicTools)
     "canary",         \* createCanaryTools(); toolRegistry.merge(canaryTools)
     "llm",            \* try { await llmManager.initialize(); merge(llmTools) } catch
     "setup",          \* await setupMCPServerWithRegistry(server, toolRegistry, logger)
     "create",         \* TransportFactory.createFromEnvironment()
     "initTransport",  \* await transportManager.initialize(server, toolRegistry)
     "start",          \* await transportManager.start()
     "ready",          \* getAvailableProviders(); logger.info("MCP server ready")
     "handlers" >>     \* process.on('SIGINT'), process.on('SIGTERM')

VercelSteps ==
  << "logger", "basic", "canary", "llm", "setup", "create", "initTransport",
     "cache" >>        \* serverInstance, transportInstance, toolRegistry are set

StepsFor(ep) == IF ep = "main" THEN MainSteps ELSE VercelSteps

\* The steps that are awaited.
Awaited(ep) ==
  IF ep = "main" THEN {"llm", "setup", "initTransport", "start"}
                 ELSE {"logger", "llm", "setup", "initTransport"}

\* The steps that can throw out of the function (a failure of the LLM
\* initialization is an input of its own).
FailPoints(ep) ==
  { StepsFor(ep)[i] : i \in 1..Len(StepsFor(ep)) } \ {"llm", "cache"}

\* The global logger provider: the name of its constructor, what toString()
\* gives, and whether a LoggerProvider was registered.
Provider(ctor, str, initialized) ==
  [ctor |-> ctor, str |-> str, initialized |-> initialized]

\* The provider logs.getLoggerProvider() gives when none was registered
\* depends on the installed @opentelemetry/api-logs.
UninitializedProviders ==
  { Provider(c, s, FALSE) :
      c \in {"ProxyLoggerProvider", "NoopLoggerProvider"},
      s \in {"[object Object]", "NoopLoggerProvider"} }

ReadyProvider == Provider("LoggerProvider", "[object Object]", TRUE)

Providers == UninitializedProviders \cup {ReadyProvider}

\* src/index.ts: loggerProvider.constructor.name === 'ProxyLoggerProvider'
isProxyProvider(p) == p.ctor = "ProxyLoggerProvider"

\* api/index.ts: loggerProviderGlobal.toString() === 'NoopLoggerProvider'
isNoopProvider(p) == p.str = "NoopLoggerProvider"

\* Does the entry point call initializeLoggerProvider()?
CallsInitialize(ep, p) ==
  IF ep = "main" THEN isProxyProvider(p) ELSE isNoopProvider(p)

VARIABLES
  regs,       \* regs[r]: the registry r of the registry tests
  added,      \* added[r]: the tools passed to r.add() so far
  merged,     \* the registries another one was merged into
  heldBefore, \* heldBefore[r]: the names r or the other held before the merge
  dep,        \* the installed dependency (fixed during a run)
  cur,        \* cur[f]: index in file f of the `it` block being run
  next,       \* next[f]: index of the next statement of that block
  pending,    \* pending[f]: the awaited statement (0: none)
  status,     \* status[e]: "none" until the entry has ended, then pass/fail
  failures,   \* failures[e]: the diagnostics of entry e, in order
  invoked,    \* invoked[e]: assertions of e invoked so far
  settled,    \* settled[e]: assertions of e that have settled
  timedOut,   \* entries ended by the timeout
  report,     \* the results of the entries that have ended
  run,        \* the number of the run of the catalog (1: the first)
  prev,       \* prev[e]: the status of e in the run before ("none": no such run)
  compiles,   \* the fragments the installed declarations accept
  unitIdx,    \* the next unit to verify
  verdict     \* verdict[k]: "none", "ok" or "divergence"

(***************************************************************************)
(* The HTTP session protocol of the /mcp endpoint, as CLAUDE.md documents  *)
(* it and as the system tests talk to it.                                  *)
(***************************************************************************)
Methods == {"initialize", "tools/list", "ping"}

\* Header value of a request that carries no mcp-session-id.
NoSession == 0

Request(method, id) == [method |-> method, session |-> id]

\* rebuilt: the server instance of the session was built anew for the request.
Response(code, id, error, tools, rebuilt) ==
  [status |-> code, session |-> id, error |-> error, tools |-> tools,
   rebuilt |-> rebuilt]

NoResponse == Response(0, NoSession, "", {}, FALSE)

\* Variant: a reconstructed session has no tools, whether or not the
\* registry was passed to the transport.
ToolsOnResumeForgets(passed) == {}

\* The tools of a session whose server instance was built anew: those of the
\* registry when it was passed to transportManager.initialize, none otherwise.
ToolsOnResume(passed) == IF passed THEN names(StartupRegistry) ELSE {}

\* sendMCPRequest of the system tests: null on 400 "Server not initialized".
sendMCPRequest(resp) ==
  IF resp.status = 400 /\ resp.error = "Server not initialized"
    THEN "null" ELSE "data"

VARIABLES
  registryPassed, \* toolRegistry was passed to transportManager.initialize
  issued,         \* the session ids issued so far
  live,           \* the sessions whose server instance is in memory
  seenTools,      \* seenTools[id]: the answers of tools/list in session id
  lastReq,        \* the last request
  lastResp,       \* the response to it
  requests        \* requests sent so far

VARIABLES
  entryPoint,     \* the entry point that runs
  startProvider,  \* the global logger provider when startup began
  loggerProvider, \* the global logger provider
  loggerInits,    \* calls of initializeLoggerProvider() so far
  llmRejects,     \* llmManager.initialize() rejects (no API key)
  failAt,         \* the step that throws ("none": no step does)
  pc,             \* the index of the step to run or awaited
  awaiting,       \* the step pc is awaited
  events,         \* what happened, in order: <<"begin" | "end" | "caught" | "throw", step>>
  toolRegistry,   \* the registry the entry point builds
  setupArg,       \* the registry handed to setupMCPServerWithRegistry, if any
  transportArg,   \* the registry handed to transportManager.initialize, if any
  result,         \* "running", "exit0", "exit1", "killed", "initialized", "rejected"
  handlersOn,     \* the SIGINT/SIGTERM handlers are registered
  signals,        \* signals received so far
  stops           \* stops[k]: the k-th transportManager.stop() call

(***************************************************************************)
(* The Vercel function of api/index.ts: the module-level cache and the     *)
(* invocations of handler() in one process.  An invocation runs from one   *)
(* await to the next without interruption; other invocations run while it  *)
(* is suspended at an await.                                               *)
(***************************************************************************)
\* let serverInstance = null, transportInstance = null, toolRegistry = null
Null == 0

\* A variable that holds a registry object, or null.
Ref(r) == << r >>

NullRef == << >>

\* Variant: the cache assignments leave toolRegistry null.
CachedWithoutRegistry(server, transport, registry) ==
  [serverInstance |-> server, transportInstance |-> transport,
   toolRegistry |-> NullRef]

\* The three module-level variables after the assignments of lines 88-90.
Cached(server, transport, registry) ==
  [serverInstance |-> server, transportInstance |-> transport,
   toolRegistry |-> registry]

EmptyCache ==
  [serverInstance |-> Null, transportInstance |-> Null, toolRegistry |-> NullRef]

\* Variant: the cache check never succeeds.
CacheHitNever(c) == FALSE

\* if (serverInstance && transportInstance)
CacheHit(c) == c.serverInstance # Null /\ c.transportInstance # Null

\* What initializeServer() returns.
Returned(server, transport, registry) ==
  [server |-> server, transport |-> transport, registry |-> registry]

NoReturn == Returned(Null, Null, NullRef)

\* An invocation of handler(): the await of initializeServer() it is
\* suspended at ("idle": not yet invoked, "done": answered), the registry it
\* builds, the initialization steps it has begun, the status of its
\* response (Null: none yet), what initializeServer() returned to it,
\* whether that came from the cache, and the number of initializations that
\* had completed when it was invoked.
Invocation(at, registry, steps, code, got, hit, after) ==
  [at |-> at, registry |-> registry, steps |-> steps, status |-> code,
   got |-> got, hit |-> hit, after |-> after]

NotInvoked == Invocation("idle", NewToolRegistry, {}, Null, NoReturn, FALSE, Null)

\* Lines 43-70: new LLMManager(), new Server(), the registry with the basic
\* and the canary tools, and the call of llmManager.initialize().
UpToLLM(v) ==
  [v EXCEPT !.at = "llm",
            !.registry = merge(merge(NewToolRegistry, basicTools), createCanaryTools),
            !.steps = @ \cup {"server", "basic", "canary", "llm"}]

\* Lines 71-81: the LLM tools are merged when llmManager.initialize()
\* resolved, its rejection is caught; then setupMCPServerWithRegistry is
\* called.
UpToSetup(v, ok) ==
  [v EXCEPT !.at = "setup",
            !.registry = IF ok THEN merge(@, llmTools) ELSE @,
            !.steps = @ \cup {"setup"}]

\* Lines 84-85: the transport is created and its initialize() is called.
UpToTransport(v) ==
  [v EXCEPT !.at = "initTransport",
            !.steps = @ \cup {"create", "initTransport"}]

\* Lines 123-128: initializeServer() rejected, the handler answers 500.
Answer500(v) == [v EXCEPT !.at = "done", !.status = 500]

\* Lines 94, 104-122: initializeServer() returned r, the handler answers 200.
Answer200(v, r, hit) ==
  [v EXCEPT !.at = "done", !.status = 200, !.got = r, !.hit = hit]

VARIABLES
  cache,          \* serverInstance, transportInstance and toolRegistry of api/index.ts
  invocation,     \* invocation[h]: the h-th invocation of handler()
  completed,      \* the invocations whose initializeServer() set the cache, in order
  transportInits  \* the invocations that called transportManager.initialize()

(***************************************************************************)
(* Health polling: waitForServer of the test utilities and                 *)
(* waitForServerReady of the global setup.                                 *)
(***************************************************************************)
PollFunctions == {"waitForServer", "waitForServerReady"}

\* What a GET /health gives: status 200, another status, or an error (no
\* connection, timeout).
Outcomes == {"200", "non200", "error"}

\* Variant: a delay follows every attempt that did not answer 200.
DelaysAfterEvery(fn, outcome, a, m) == TRUE

\* Is a delay of delayMs taken after attempt a of m, which did not answer
\* 200?  waitForServer: after the try/catch, if (attempt < maxAttempts);
\* waitForServerReady: in the catch block only, if (attempt < maxAttempts).
DelaysAfter(fn, outcome, a, m) ==
  IF fn = "waitForServer"
    THEN a < m
    ELSE outcome = "error" /\ a < m

VARIABLES
  pollFn,       \* the polling function that was called
  maxAttempts,  \* its parameter maxAttempts
  attempt,      \* the loop variable attempt
  waiting,      \* the function is suspended in a delay
  trace,        \* the outcomes of the requests and the delays, in order
  returned      \* "none", or what the function returned: "true", "false"

(***************************************************************************)
(* The global setup and teardown of the system tests, and the server       *)
(* process the setup spawns.                                               *)
(***************************************************************************)
\* The keys of TEST_ENVIRONMENTS: the values of TEST_ENV that
\* getCurrentEnvironment() accepts.
EnvironmentNames ==
  {"express", "express:ci", "stdio", "vercel:local", "vercel:preview",
   "vercel:production", "docker"}

\* Variant: the server is managed in every environment.
ManagesServerAlways(name) == TRUE

\* if (environment.name === 'express:ci' && !isSTDIOEnvironment(environment))
ManagesServer(name) == name = "express:ci" /\ name # "stdio"

\* The states of the spawned process: "none" (nothing was spawned, or the
\* spawn failed), "starting", "ready" (its /health answers 200), "exited".
ChildStates == {"none", "starting", "ready", "exited"}

Alive(c) == c \in {"starting", "ready"}

\* What a GET of environment.baseUrl + '/health' can give.  With
\* TEST_BASE_URL set the URL is that of another server than the spawned one.
AllowedOutcomes(over, c) ==
  IF over THEN Outcomes
  ELSE CASE c = "ready"    -> {"200", "error"}
         [] c = "starting" -> {"non200", "error"}
         [] OTHER          -> {"error"}

\* Variant: the teardown sends SIGKILL whether or not the process exists.
ForceKillsAlways(exists) == TRUE

\* globalTeardown: process.kill(serverPid, 0) did not throw, SIGKILL is sent.
ForceKills(exists) == exists

VARIABLES
  testEnv,      \* TEST_ENV
  overridden,   \* TEST_BASE_URL is set
  setupAt,      \* globalSetup: "start", "waiting", "returned", "threw"
  child,        \* the state of the spawned process
  pidRecorded,  \* global.__HTTP_SERVER_PID__: "absent", "undefined", "pid"
  answeredBy,   \* who answered /health with 200: "none", "child", "other"
  setupSent,    \* the signals globalSetup sent to the spawned process
  teardownAt,   \* globalTeardown: "idle", "grace", "done"
  sent,         \* the signals globalTeardown sent to the recorded PID
  probe         \* process.kill(serverPid, 0): "none", "exists", "gone"

(***************************************************************************)
(* The environment of the system tests: TEST_ENV, HTTP_TEST_PORT,          *)
(* TEST_BASE_URL, and the functions of the test utilities that read them.  *)
(* A port is the sequence of its digits, as the text of the variable or of *)
(* the URL has them.                                                       *)
(***************************************************************************)
\* An environment variable: set to a text, or unset.
Set(text) == [set |-> TRUE, text |-> text]

Unset == [set |-> FALSE, text |-> << >>]

\* process.env.X || d: an unset or empty variable gives the default.
OrDefault(v, d) == IF v.set /\ v.text # << >> THEN v.text ELSE d

Url(protocol, host, port) == [protocol |-> protocol, host |-> host, port |-> port]

\* The values of HTTP_TEST_PORT.
PortSettings ==
  {Unset, Set(<< >>), Set(<<3, 0, 2, 1>>), Set(<<3, 0, 0, 1>>),
   Set(<<3, 0, 2, 0>>), Set(<<8, 0>>), Set(<<0, 3, 0, 2, 1>>)}

\* The values of TEST_BASE_URL.
BaseUrlSettings ==
  {Unset, Set(Url("http:", "localhost", <<3, 0, 2, 0>>)),
   Set(Url("http:", "localhost", <<8, 0, 8, 0>>)),
   Set(Url("https:", "example.com", << >>))}

\* TEST_ENVIRONMENTS[name].baseUrl, given HTTP_TEST_PORT (the Vercel URLs
\* are the defaults).
TEST_ENVIRONMENTS(name, port) ==
  [name |-> name,
   baseUrl |->
     CASE name = "express:ci" ->
            Url("http:", "localhost", OrDefault(port, <<3, 0, 2, 1>>))
       [] name = "stdio" -> Url("stdio:", "localhost", << >>)
       [] name = "vercel:preview" -> Url("https:", "canary-preview.vercel.app", << >>)
       [] name = "vercel:production" -> Url("https:", "canary.vercel.app", << >>)
       [] OTHER -> Url("http:", "localhost", <<3, 0, 2, 0>>)]

getCurrentEnvironment(name, port, base) ==
  IF base.set
    THEN [TEST_ENVIRONMENTS(name, port) EXCEPT !.baseUrl = base.text]
    ELSE TEST_ENVIRONMENTS(name, port)

\* The Origin header of the client createHttpClient() builds (<< >>: none).
createHttpClient(environment) ==
  IF environment.name = "express:ci"
    THEN << Url("http:", "localhost", <<3, 0, 2, 0>>) >>
    ELSE << >>

RECURSIVE StripZeros(_)
StripZeros(digits) ==
  IF Len(digits) > 1 /\ Head(digits) = 0 THEN StripZeros(Tail(digits)) ELSE digits

\* The default port of a scheme that has one.
DefaultPort(protocol) ==
  CASE protocol = "http:"  -> <<8, 0>>
    [] protocol = "https:" -> <<4, 4, 3>>
    [] OTHER               -> << >>

\* new URL(baseUrl).port: the port without leading zeros, empty when it is
\* the default port of the scheme or when the URL has none.
UrlPort(u) ==
  IF u.port = << >> \/ StripZeros(u.port) = DefaultPort(u.protocol)
    THEN << >>
    ELSE StripZeros(u.port)

expectsCorsHeaders(environment, port) ==
  LET url == environment.baseUrl
      serverPort == IF UrlPort(url) # << >> THEN UrlPort(url)
                    ELSE IF url.protocol = "https:" THEN <<4, 4, 3>> ELSE <<8, 0>>
  IN  IF environment.name = "express:ci"
        THEN serverPort = OrDefault(port, <<3, 0, 0, 1>>)
        ELSE environment.name \in {"vercel:preview", "vercel:production"}

VARIABLES
  httpTestPort, \* HTTP_TEST_PORT
  testBaseUrl,  \* TEST_BASE_URL
  origin,       \* the client was built, and its Origin header
  expects       \* "none", or what expectsCorsHeaders returned: "true", "false"

probeVars ==
  <<dep, cur, next, pending, status, failures, invoked, settled, timedOut,
    report, run, prev>>

staticVars == <<compiles, unitIdx, verdict>>

registryVars == <<regs, added, merged, heldBefore>>

serverVars ==
  <<entryPoint, startProvider, loggerProvider, loggerInits, llmRejects, failAt,
    pc, awaiting, events, toolRegistry, setupArg, transportArg, result,
    handlersOn, signals, stops>>

sessionVars == <<registryPassed, issued, live, seenTools, lastReq, lastResp, requests>>

vercelVars == <<cache, invocation, completed, transportInits>>

pollVars == <<pollFn, maxAttempts, attempt, waiting, trace, returned>>

globalVars ==
  <<testEnv, overridden, setupAt, child, pidRecorded, answeredBy, setupSent,
    teardownAt, sent, probe>>

corsVars == <<httpTestPort, testBaseUrl, origin, expects>>

extraVars == <<vercelVars, pollVars, globalVars, corsVars>>

coreVars == <<probeVars, staticVars, registryVars, sessionVars>>

otherVars == <<registryVars, serverVars, sessionVars, extraVars>>

vars == <<probeVars, staticVars, otherVars>>

(***************************************************************************)
(* The runtime probes.                                                     *)
(***************************************************************************)
ProbeStart ==
  /\ cur = [f \in Files |-> 1]
  /\ next = [f \in Files |-> 1]
  /\ pending = [f \in Files |-> 0]
  /\ status = [e \in EntryIds |-> "none"]
  /\ failures = [e \in EntryIds |-> << >>]
  /\ invoked = [e \in EntryIds |-> 0]
  /\ settled = [e \in EntryIds |-> 0]
  /\ timedOut = {}
  /\ report = {}

\* The first run of the catalog.
RunStart ==
  /\ run = 1
  /\ prev = [e \in EntryIds |-> "none"]

StaticStart ==
  /\ unitIdx = 1
  /\ verdict = [k \in UnitIds |-> "none"]

\* Before startup, given the entry point, the provider and the failures.
ServerStart(ep, p, rejects, fail) ==
  /\ entryPoint = ep
  /\ startProvider = p
  /\ loggerProvider = p
  /\ loggerInits = 0
  /\ llmRejects = rejects
  /\ failAt = fail
  /\ pc = 1
  /\ awaiting = FALSE
  /\ events = << >>
  /\ toolRegistry = NewToolRegistry
  /\ setupArg = << >>
  /\ transportArg = << >>
  /\ result = "running"
  /\ handlersOn = FALSE
  /\ signals = 0
  /\ stops = << >>

ServerIdle == ServerStart("main", ReadyProvider, FALSE, "none")

\* A started server that has issued no session.
SessionStart(passed) ==
  /\ registryPassed = passed
  /\ issued = {}
  /\ live = {}
  /\ seenTools = [id \in 1..MaxSessions |-> {}]
  /\ lastReq = Request("none", NoSession)
  /\ lastResp = NoResponse
  /\ requests = 0

SessionIdle == SessionStart(TRUE)

\* A cold instance: the module was loaded, handler() was not invoked.
VercelStart ==
  /\ cache = EmptyCache
  /\ invocation = [h \in 1..MaxInvocations |-> NotInvoked]
  /\ completed = << >>
  /\ transportInits = {}

\* Function fn is called with maxAttempts m.
PollStart(fn, m) ==
  /\ pollFn = fn
  /\ maxAttempts = m
  /\ attempt = 1
  /\ waiting = FALSE
  /\ trace = << >>
  /\ returned = "none"

PollIdle == PollStart("waitForServer", 0)

\* Before globalSetup() is called, in environment name.
GlobalStart(name, over) ==
  /\ testEnv = name
  /\ overridden = over
  /\ setupAt = "start"
  /\ child = "none"
  /\ pidRecorded = "absent"
  /\ answeredBy = "none"
  /\ setupSent = << >>
  /\ teardownAt = "idle"
  /\ sent = << >>
  /\ probe = "none"

GlobalIdle == GlobalStart("vercel:local", FALSE)

\* The test process before it has called the utilities.
CorsStart(port, base) ==
  /\ httpTestPort = port
  /\ testBaseUrl = base
  /\ origin = [built |-> FALSE, header |-> << >>]
  /\ expects = "none"

CorsIdle == CorsStart(Unset, Unset)

ExtraIdle == VercelStart /\ PollIdle /\ GlobalIdle /\ CorsIdle

RegistryStart ==
  /\ regs = [r \in RegIds |-> NewToolRegistry]
  /\ added = [r \in RegIds |-> {}]
  /\ merged = {}
  /\ heldBefore = [r \in RegIds |-> {}]

InitProbe ==
  /\ ExtraIdle
  /\ dep \in Dependencies
  /\ ProbeStart
  /\ RunStart
  /\ compiles = Baseline
  /\ StaticStart
  /\ RegistryStart
  /\ ServerIdle
  /\ SessionIdle

Running(f) == cur[f] <= Len(Catalog(f))

\* Variant: the body goes on without waiting for the awaited call.
CanInvokeNoAwait(f) == TRUE

\* `await`: the body does not go on while an awaited call is pending.
CanInvoke(f) == pending[f] = 0

\* Variant: the registry of the add() test is kept from one run to the next,
\* so that adding the same tool again throws.
ObservedKeptRegistry(s) ==
  IF run > 1 /\ s.op = "add" /\ ~Unresolved(s, dep)
    THEN Outcome("throws", TRUE)
    ELSE Behaviour(s, dep)

\* What a statement does when it runs: every `it` block builds the objects
\* it uses, so the outcome depends on the installed dependency alone.
Observed(s) == Behaviour(s, dep)

\* The result of an entry: built whole, then added to the report.
ProbeResult(e, st, fs) == [entry |-> e, status |-> st, failures |-> fs]

\* Variant: the result so far is added to the report after every assertion.
PublishAlways(e, st, fs, ended) == report \cup {ProbeResult(e, st, fs)}

\* The report after an assertion of entry e: the result of e is added when
\* the entry has ended, and not before.
Publish(e, st, fs, ended) ==
  IF ended THEN report \cup {ProbeResult(e, st, fs)} ELSE report

\* Assertion i of entry e = <<f, k>> has settled with outcome b.
Judged(f, e, i, b) ==
  LET s == StepsOf(e)[i]
      failed == Mismatch(s, b)
      fs == IF failed THEN Append(failures[e], Diagnostic(i, s, b, dep)) ELSE failures[e]
      st == IF fs = << >> THEN "pass" ELSE "fail"
      ended == EndsEntry(i, Len(StepsOf(e)), failed)
  IN /\ settled' = [settled EXCEPT ![e] = @ + 1]
     /\ report' = Publish(e, st, fs, ended)
     /\ failures' = [failures EXCEPT ![e] = fs]
     /\ pending' = [pending EXCEPT ![f] = 0]
     /\ IF ended
          THEN /\ status' = [status EXCEPT ![e] = st]
               /\ cur' = [cur EXCEPT ![f] = @ + 1]
               /\ next' = [next EXCEPT ![f] = 1]
          ELSE /\ next' = [next EXCEPT ![f] = i + 1]
               /\ UNCHANGED <<status, cur>>

\* The worker of file f runs the next statement of its current `it` block.
Invoke(f) ==
  /\ Running(f)
  /\ CanInvoke(f)
  /\ LET e == <<f, cur[f]>>
         i == next[f]
         s == StepsOf(e)[i]
     IN /\ invoked' = [invoked EXCEPT ![e] = @ + 1]
        /\ IF s.async
             THEN /\ pending' = [pending EXCEPT ![f] = i]
                  /\ UNCHANGED <<cur, next, status, failures, settled, report>>
             ELSE Judged(f, e, i, Observed(s))
  /\ UNCHANGED <<dep, timedOut, run, prev, staticVars, otherVars>>

\* The awaited promise settles and the body resumes.
Settle(f) ==
  /\ Running(f)
  /\ pending[f] # 0
  /\ LET e == <<f, cur[f]>>
         i == pending[f]
         b == Observed(StepsOf(e)[i])
     IN /\ b.kind # "hangs"
        /\ Judged(f, e, i, b)
  /\ UNCHANGED <<dep, invoked, timedOut, run, prev, staticVars, otherVars>>

\* Variant: after the timeout the body goes on with its next statement.
TimeoutContinue(f) ==
  /\ Running(f)
  /\ pending[f] # 0
  /\ LET e == <<f, cur[f]>>
         i == pending[f]
         s == StepsOf(e)[i]
     IN /\ Behaviour(s, dep).kind = "hangs"
        /\ failures' = [failures EXCEPT ![e] = Append(@, TimedOutDiagnostic(i, s))]
        /\ report' = Publish(e, "fail", Append(failures[e], TimedOutDiagnostic(i, s)), TRUE)
        /\ status' = [status EXCEPT ![e] = "fail"]
        /\ timedOut' = timedOut \cup {e}
        /\ IF i = Len(StepsOf(e))
             THEN /\ cur' = [cur EXCEPT ![f] = @ + 1]
                  /\ next' = [next EXCEPT ![f] = 1]
             ELSE /\ next' = [next EXCEPT ![f] = i + 1]
                  /\ UNCHANGED cur
  /\ pending' = [pending EXCEPT ![f] = 0]
  /\ UNCHANGED <<dep, invoked, settled, run, prev, staticVars, otherVars>>

\* The awaited promise does not settle within the bound: the entry fails
\* with "timed out" and the worker goes on with the next `it` block.
Timeout(f) ==
  /\ Running(f)
  /\ pending[f] # 0
  /\ LET e == <<f, cur[f]>>
         i == pending[f]
         s == StepsOf(e)[i]
     IN /\ Behaviour(s, dep).kind = "hangs"
        /\ failures' = [failures EXCEPT ![e] = Append(@, TimedOutDiagnostic(i, s))]
        /\ report' = Publish(e, "fail", Append(failures[e], TimedOutDiagnostic(i, s)), TRUE)
        /\ status' = [status EXCEPT ![e] = "fail"]
        /\ timedOut' = timedOut \cup {e}
  /\ cur' = [cur EXCEPT ![f] = @ + 1]
  /\ next' = [next EXCEPT ![f] = 1]
  /\ pending' = [pending EXCEPT ![f] = 0]
  /\ UNCHANGED <<dep, invoked, settled, run, prev, staticVars, otherVars>>

Step(f) == Invoke(f) \/ Settle(f) \/ Timeout(f)

Next == \E f \in Files : Step(f)

Spec == InitProbe /\ [][Next]_vars

(***************************************************************************)
(* The catalog run again against the same dependency.                      *)
(***************************************************************************)
Restart ==
  /\ \A f \in Files : ~Running(f)
  /\ run < MaxRuns
  /\ run' = run + 1
  /\ prev' = status
  /\ cur' = [f \in Files |-> 1]
  /\ next' = [f \in Files |-> 1]
  /\ pending' = [f \in Files |-> 0]
  /\ status' = [e \in EntryIds |-> "none"]
  /\ failures' = [e \in EntryIds |-> << >>]
  /\ invoked' = [e \in EntryIds |-> 0]
  /\ settled' = [e \in EntryIds |-> 0]
  /\ timedOut' = {}
  /\ report' = {}
  /\ UNCHANGED <<dep, staticVars, otherVars>>

NextTwice == Next \/ Restart

SpecTwice == InitProbe /\ [][NextTwice]_vars

(***************************************************************************)
(* The static shape check: the units are verified one after the other.     *)
(***************************************************************************)
InitStatic ==
  /\ ExtraIdle
  /\ dep = [exported |-> Symbols, fault |-> "none"]
  /\ ProbeStart
  /\ RunStart
  /\ compiles \in Declarations
  /\ StaticStart
  /\ RegistryStart
  /\ ServerIdle
  /\ SessionIdle

VerifyUnit ==
  /\ unitIdx \in UnitIds
  /\ verdict' = [verdict EXCEPT ![unitIdx] =
                   IF Verify(TypeCheckUnits[unitIdx], unitIdx \in compiles)
                     THEN "ok" ELSE "divergence"]
  /\ unitIdx' = unitIdx + 1
  /\ UNCHANGED <<compiles, probeVars, otherVars>>

NextStatic == VerifyUnit

SpecStatic == InitStatic /\ [][NextStatic]_vars

(***************************************************************************)
(* Registries built by add() and merge(), as in the registry tests.        *)
(***************************************************************************)
InitRegistry ==
  /\ ExtraIdle
  /\ dep = [exported |-> Symbols, fault |-> "none"]
  /\ ProbeStart
  /\ RunStart
  /\ compiles = Baseline
  /\ StaticStart
  /\ RegistryStart
  /\ ServerIdle
  /\ SessionIdle

\* registry.add(tool), with a tool of a name not added to it before.
RegistryAdd(r, x) ==
  /\ Cardinality(added[r]) < MaxTools
  /\ x.name \notin ToolNamesOf(added[r])
  /\ regs' = [regs EXCEPT ![r] = add(@, x)]
  /\ added' = [added EXCEPT ![r] = @ \cup {x}]
  /\ UNCHANGED <<merged, heldBefore, probeVars, staticVars, serverVars, sessionVars,
                 extraVars>>

\* registry1.merge(registry2)
RegistryMerge(r1, r2) ==
  /\ r1 # r2
  /\ r1 \notin merged
  /\ regs' = [regs EXCEPT ![r1] = merge(@, regs[r2])]
  /\ merged' = merged \cup {r1}
  /\ heldBefore' = [heldBefore EXCEPT ![r1] = names(regs[r1]) \cup names(regs[r2])]
  /\ UNCHANGED <<added, probeVars, staticVars, serverVars, sessionVars,
                 extraVars>>

NextRegistry ==
  \/ \E r \in RegIds : \E x \in TestTools : RegistryAdd(r, x)
  \/ \E r1 \in RegIds : \E r2 \in RegIds : RegistryMerge(r1, r2)

SpecRegistry == InitRegistry /\ [][NextRegistry]_vars

(***************************************************************************)
(* Startup and shutdown of the server.                                     *)
(***************************************************************************)
InitServer ==
  /\ ExtraIdle
  /\ dep = [exported |-> Symbols, fault |-> "none"]
  /\ ProbeStart
  /\ RunStart
  /\ compiles = Baseline
  /\ StaticStart
  /\ RegistryStart
  /\ \E ep \in EntryPoints : \E p \in Providers : \E rejects \in BOOLEAN :
       \E fail \in FailPoints(ep) \cup {"none"} : ServerStart(ep, p, rejects, fail)
  /\ SessionIdle

\* Does step s throw?
Throws(s) == s = failAt \/ (s = "llm" /\ llmRejects)

\* Variant: a failure of the LLM initialization is not caught.
CaughtNever(s) == FALSE

\* Variant: every failure is caught and logged, and startup goes on.
CaughtAlways(s) == TRUE

\* The inner try/catch: a failure of the LLM step is caught and logged.
Caught(s) == s = "llm"

\* The registry after step s has ended without throwing.
RegistryAfter(s) ==
  CASE s = "basic"  -> merge(NewToolRegistry, basicTools)
    [] s = "canary" -> merge(toolRegistry, createCanaryTools)
    [] s = "llm"    -> merge(toolRegistry, llmTools)
    [] OTHER        -> toolRegistry

\* Step s is over, evs being the events up to its beginning: it threw and
\* was caught, it threw out of the function (main: the outer catch calls
\* process.exit(1); initializeServer: the promise rejects), or it ended.
Finish(s, evs) ==
  IF Throws(s)
    THEN IF Caught(s)
           THEN /\ events' = Append(evs, <<"caught", s>>)
                /\ pc' = pc + 1
                /\ UNCHANGED <<result, toolRegistry, handlersOn>>
           ELSE /\ events' = Append(evs, <<"throw", s>>)
                /\ result' = IF entryPoint = "main" THEN "exit1" ELSE "rejected"
                /\ UNCHANGED <<pc, toolRegistry, handlersOn>>
    ELSE /\ events' = Append(evs, <<"end", s>>)
         /\ pc' = pc + 1
         /\ toolRegistry' = RegistryAfter(s)
         /\ handlersOn' = (handlersOn \/ s = "handlers")
         /\ result' = IF s = "cache" THEN "initialized" ELSE result

\* What the call that begins step s does at once.
Calls(s) ==
  /\ IF s = "logger" /\ CallsInitialize(entryPoint, loggerProvider)
       THEN /\ loggerInits' = loggerInits + 1
            /\ loggerProvider' = ReadyProvider
       ELSE UNCHANGED <<loggerInits, loggerProvider>>
  /\ setupArg' = IF s = "setup" THEN << toolRegistry >> ELSE setupArg
  /\ transportArg' = IF s = "initTransport" THEN << toolRegistry >> ELSE transportArg

\* The entry point runs its next step: an awaited step is begun, another
\* one is run to its end.
StartupBegin ==
  /\ result = "running"
  /\ ~awaiting
  /\ pc \in 1..Len(StepsFor(entryPoint))
  /\ LET s == StepsFor(entryPoint)[pc]
         evs == Append(events, <<"begin", s>>)
     IN /\ Calls(s)
        /\ IF s \in Awaited(entryPoint)
             THEN /\ awaiting' = TRUE
                  /\ events' = evs
                  /\ UNCHANGED <<pc, result, toolRegistry, handlersOn>>
             ELSE /\ awaiting' = FALSE
                  /\ Finish(s, evs)
  /\ UNCHANGED <<entryPoint, startProvider, llmRejects, failAt, signals, stops,
                 probeVars, staticVars, registryVars, sessionVars,
                 extraVars>>

\* The awaited step settles.
StartupSettle ==
  /\ result = "running"
  /\ awaiting
  /\ awaiting' = FALSE
  /\ Finish(StepsFor(entryPoint)[pc], events)
  /\ UNCHANGED <<entryPoint, startProvider, loggerProvider, loggerInits,
                 llmRejects, failAt, setupArg, transportArg, signals, stops,
                 probeVars, staticVars, registryVars, sessionVars,
                 extraVars>>

\* SIGINT or SIGTERM arrives: handleShutdown calls transportManager.stop()
\* when the handlers are registered; without them the signal ends the
\* process.
Signal ==
  /\ entryPoint = "main"
  /\ result = "running"
  /\ signals < MaxSignals
  /\ signals' = signals + 1
  /\ IF handlersOn
       THEN /\ stops' = Append(stops, "pending")
            /\ UNCHANGED result
       ELSE /\ result' = "killed"
            /\ UNCHANGED stops
  /\ UNCHANGED <<entryPoint, startProvider, loggerProvider, loggerInits,
                 llmRejects, failAt, pc, awaiting, events, toolRegistry,
                 setupArg, transportArg, handlersOn,
                 probeVars, staticVars, registryVars, sessionVars,
                 extraVars>>

\* Variant: handleShutdown does not wait for stop() before it exits.
StopSettlesUnawaited(k, ok) ==
  /\ result = "running"
  /\ k \in DOMAIN stops
  /\ stops[k] = "pending"
  /\ result' = "exit0"
  /\ UNCHANGED <<stops, signals, entryPoint, startProvider, loggerProvider,
                 loggerInits, llmRejects, failAt, pc, awaiting, events,
                 toolRegistry, setupArg, transportArg, handlersOn,
                 probeVars, staticVars, registryVars, sessionVars,
                 extraVars>>

\* The k-th stop() call settles and its handleShutdown goes on:
\* process.exit(0) when it resolved, process.exit(1) when it threw.
StopSettles(k, ok) ==
  /\ result = "running"
  /\ k \in DOMAIN stops
  /\ stops[k] = "pending"
  /\ stops' = [stops EXCEPT ![k] = IF ok THEN "done" ELSE "failed"]
  /\ result' = IF ok THEN "exit0" ELSE "exit1"
  /\ UNCHANGED <<signals, entryPoint, startProvider, loggerProvider,
                 loggerInits, llmRejects, failAt, pc, awaiting, events,
                 toolRegistry, setupArg, transportArg, handlersOn,
                 probeVars, staticVars, registryVars, sessionVars,
                 extraVars>>

NextServer ==
  \/ StartupBegin
  \/ StartupSettle
  \/ Signal
  \/ \E k \in 1..MaxSignals : \E ok \in BOOLEAN : StopSettles(k, ok)

SpecServer == InitServer /\ [][NextServer]_vars

(***************************************************************************)
(* Requests to the /mcp endpoint of a started server.                      *)
(***************************************************************************)
InitSession ==
  /\ ExtraIdle
  /\ dep = [exported |-> Symbols, fault |-> "none"]
  /\ ProbeStart
  /\ RunStart
  /\ compiles = Baseline
  /\ StaticStart
  /\ RegistryStart
  /\ ServerIdle
  /\ \E passed \in BOOLEAN : SessionStart(passed)

\* An initialize request: a session is created and its id is returned in the
\* mcp-session-id header of the response.
Initialize ==
  /\ requests < MaxRequests
  /\ Cardinality(issued) < MaxSessions
  /\ LET id == Cardinality(issued) + 1
     IN /\ issued' = issued \cup {id}
        /\ live' = live \cup {id}
        /\ lastResp' = Response(200, id, "", {}, FALSE)
  /\ lastReq' = Request("initialize", NoSession)
  /\ requests' = requests + 1
  /\ UNCHANGED <<registryPassed, seenTools, probeVars, staticVars, registryVars, serverVars,
                 extraVars>>

\* Another request, with session header h (NoSession: without): it is served
\* in session h when h was issued, the server instance being built anew
\* when it is not in memory; it is refused otherwise.
Serve(m, h) ==
  /\ requests < MaxRequests
  /\ m # "initialize"
  /\ lastReq' = Request(m, h)
  /\ requests' = requests + 1
  /\ IF h \in issued
       THEN LET tools == IF h \in live THEN names(StartupRegistry)
                                       ELSE ToolsOnResume(registryPassed)
            IN /\ live' = live \cup {h}
               /\ IF m = "tools/list"
                    THEN /\ lastResp' = Response(200, h, "", tools, h \notin live)
                         /\ seenTools' = [seenTools EXCEPT ![h] = @ \cup {tools}]
                    ELSE /\ lastResp' = Response(200, h, "", {}, h \notin live)
                         /\ UNCHANGED seenTools
       ELSE /\ lastResp' = Response(400, NoSession, "Server not initialized", {}, FALSE)
            /\ UNCHANGED <<live, seenTools>>
  /\ UNCHANGED <<registryPassed, issued, probeVars, staticVars, registryVars, serverVars,
                 extraVars>>

\* The server instance of a session leaves memory (the client reconnects).
Reconnect(id) ==
  /\ id \in live
  /\ live' = live \ {id}
  /\ UNCHANGED <<registryPassed, issued, seenTools, lastReq, lastResp, requests,
                 probeVars, staticVars, registryVars, serverVars,
                 extraVars>>

NextSession ==
  \/ Initialize
  \/ \E m \in Methods : \E h \in 0..MaxSessions : Serve(m, h)
  \/ \E id \in 1..MaxSessions : Reconnect(id)

SpecSession == InitSession /\ [][NextSession]_vars

(***************************************************************************)
(* Invocations of the Vercel handler in one process.                       *)
(***************************************************************************)
InitVercel ==
  /\ dep = [exported |-> Symbols, fault |-> "none"]
  /\ ProbeStart
  /\ RunStart
  /\ compiles = Baseline
  /\ StaticStart
  /\ RegistryStart
  /\ \E p \in Providers : ServerStart("vercel", p, FALSE, "none")
  /\ SessionIdle
  /\ ExtraIdle

serverRest ==
  <<entryPoint, startProvider, llmRejects, failAt, pc, awaiting, events,
    toolRegistry, setupArg, transportArg, result, handlersOn, signals, stops>>

\* handler() is invoked for the h-th time and calls initializeServer(),
\* which returns what is cached, or else runs up to its first await: that of
\* initializeLoggerProvider() when the provider test of line 38 holds, that
\* of llmManager.initialize() otherwise.
HandlerBegin(h) ==
  /\ invocation[h].at = "idle"
  /\ \A k \in 1..(h - 1) : invocation[k].at # "idle"
  /\ LET v == [invocation[h] EXCEPT !.after = Len(completed)]
     IN IF CacheHit(cache)
          THEN /\ invocation' =
                    [invocation EXCEPT ![h] =
                       Answer200(v, Returned(cache.serverInstance,
                                             cache.transportInstance,
                                             cache.toolRegistry), TRUE)]
               /\ UNCHANGED <<loggerProvider, loggerInits>>
          ELSE IF isNoopProvider(loggerProvider)
                 THEN /\ invocation' =
                           [invocation EXCEPT ![h] =
                              [v EXCEPT !.at = "logger", !.steps = {"logger"}]]
                      /\ loggerInits' = loggerInits + 1
                      /\ loggerProvider' = ReadyProvider
                 ELSE /\ invocation' = [invocation EXCEPT ![h] = UpToLLM(v)]
                      /\ UNCHANGED <<loggerProvider, loggerInits>>
  /\ UNCHANGED <<cache, completed, transportInits, serverRest,
                 coreVars, pollVars, globalVars, corsVars>>

\* The promise invocation h awaits settles (ok: it resolves) and the
\* invocation runs on to its next await, to the rejection of
\* initializeServer() or to the cache assignments and the return.  The
\* server and the transport manager an invocation creates are its own: they
\* are named by its number.
HandlerResume(h, ok) ==
  /\ invocation[h].at \in {"logger", "llm", "setup", "initTransport"}
  /\ LET v == invocation[h]
     IN CASE v.at = "logger" ->
               /\ invocation' = [invocation EXCEPT ![h] =
                                   IF ok THEN UpToLLM(v) ELSE Answer500(v)]
               /\ UNCHANGED <<cache, completed, transportInits>>
          [] v.at = "llm" ->
               /\ invocation' = [invocation EXCEPT ![h] = UpToSetup(v, ok)]
               /\ UNCHANGED <<cache, completed, transportInits>>
          [] v.at = "setup" ->
               /\ invocation' = [invocation EXCEPT ![h] =
                                   IF ok THEN UpToTransport(v) ELSE Answer500(v)]
               /\ transportInits' = IF ok THEN transportInits \cup {h}
                                          ELSE transportInits
               /\ UNCHANGED <<cache, completed>>
          [] v.at = "initTransport" ->
               /\ invocation' = [invocation EXCEPT ![h] =
                                   IF ok THEN Answer200([v EXCEPT !.steps = @ \cup {"cache"}],
                                                        Returned(h, h, Ref(v.registry)), FALSE)
                                         ELSE Answer500(v)]
               /\ cache' = IF ok THEN Cached(h, h, Ref(v.registry)) ELSE cache
               /\ completed' = IF ok THEN Append(completed, h) ELSE completed
               /\ UNCHANGED transportInits
  /\ UNCHANGED <<loggerProvider, loggerInits, serverRest, coreVars, pollVars, globalVars, corsVars>>

NextVercel ==
  \/ \E h \in 1..MaxInvocations : HandlerBegin(h)
  \/ \E h \in 1..MaxInvocations : \E ok \in BOOLEAN : HandlerResume(h, ok)

SpecVercel == InitVercel /\ [][NextVercel]_vars

(***************************************************************************)
(* The polling loop.                                                       *)
(***************************************************************************)
InitPoll ==
  /\ dep = [exported |-> Symbols, fault |-> "none"]
  /\ ProbeStart
  /\ RunStart
  /\ compiles = Baseline
  /\ StaticStart
  /\ RegistryStart
  /\ ServerIdle
  /\ SessionIdle
  /\ VercelStart
  /\ GlobalIdle
  /\ CorsIdle
  /\ \E fn \in PollFunctions : \E m \in 0..MaxAttempts : PollStart(fn, m)

\* One pass of the loop body: GET /health is sent and answered with
\* outcome; status 200 returns true, otherwise a delay is begun or the loop
\* goes on to the next attempt.
PollRequest(outcome) ==
  /\ returned = "none"
  /\ ~waiting
  /\ attempt <= maxAttempts
  /\ IF outcome = "200"
       THEN /\ returned' = "true"
            /\ trace' = Append(trace, outcome)
            /\ UNCHANGED <<attempt, waiting>>
       ELSE IF DelaysAfter(pollFn, outcome, attempt, maxAttempts)
              THEN /\ waiting' = TRUE
                   /\ trace' = trace \o << outcome, "delay" >>
                   /\ UNCHANGED <<attempt, returned>>
              ELSE /\ attempt' = attempt + 1
                   /\ trace' = Append(trace, outcome)
                   /\ UNCHANGED <<waiting, returned>>
  /\ UNCHANGED <<pollFn, maxAttempts>>

\* The timer of the delay fires and the loop goes on to the next attempt.
PollDelay ==
  /\ waiting
  /\ waiting' = FALSE
  /\ attempt' = attempt + 1
  /\ UNCHANGED <<pollFn, maxAttempts, trace, returned>>

\* The loop condition fails: the function reports and returns false.
PollGiveUp ==
  /\ returned = "none"
  /\ ~waiting
  /\ attempt > maxAttempts
  /\ returned' = "false"
  /\ UNCHANGED <<pollFn, maxAttempts, attempt, waiting, trace>>

PollStep ==
  \/ \E outcome \in Outcomes : PollRequest(outcome)
  \/ PollDelay
  \/ PollGiveUp

NextPoll == PollStep /\ UNCHANGED <<coreVars, serverVars, vercelVars, globalVars, corsVars>>

SpecPoll == InitPoll /\ [][NextPoll]_vars

\* Every request is answered or fails (axios is given a timeout) and every
\* timer fires.
SpecPollFair == SpecPoll /\ WF_vars(NextPoll)

(***************************************************************************)
(* globalSetup, the spawned server, globalTeardown.                        *)
(***************************************************************************)
InitGlobal ==
  /\ dep = [exported |-> Symbols, fault |-> "none"]
  /\ ProbeStart
  /\ RunStart
  /\ compiles = Baseline
  /\ StaticStart
  /\ RegistryStart
  /\ ServerIdle
  /\ SessionIdle
  /\ VercelStart
  /\ PollStart("waitForServerReady", MaxAttempts)
  /\ \E name \in EnvironmentNames : \E over \in BOOLEAN : GlobalStart(name, over)
  /\ CorsIdle

\* globalSetup() up to its await of waitForServerReady(): in express:ci the
\* port is freed, the server is spawned (hasPid: the spawn gave a PID) and
\* its PID is recorded; elsewhere the function returns.
SetupBegin(hasPid) ==
  /\ setupAt = "start"
  /\ IF ManagesServer(testEnv)
       THEN /\ child' = IF hasPid THEN "starting" ELSE "none"
            /\ pidRecorded' = IF hasPid THEN "pid" ELSE "undefined"
            /\ setupAt' = "waiting"
       ELSE /\ setupAt' = "returned"
            /\ UNCHANGED <<child, pidRecorded>>
  /\ UNCHANGED <<testEnv, overridden, answeredBy, setupSent, teardownAt, sent,
                 probe, pollVars, coreVars, serverVars, vercelVars,
                 corsVars>>

\* A step of waitForServerReady(environment.baseUrl) inside globalSetup.
SetupPoll ==
  /\ setupAt = "waiting"
  /\ \/ \E outcome \in AllowedOutcomes(overridden, child) :
          /\ PollRequest(outcome)
          /\ answeredBy' = IF outcome # "200" THEN answeredBy
                           ELSE IF overridden THEN "other" ELSE "child"
     \/ (PollDelay /\ UNCHANGED answeredBy)
     \/ (PollGiveUp /\ UNCHANGED answeredBy)
  /\ UNCHANGED <<testEnv, overridden, setupAt, child, pidRecorded, setupSent,
                 teardownAt, sent, probe, coreVars, serverVars, vercelVars,
                 corsVars>>

\* globalSetup() after waitForServerReady() has returned: it returns when
\* the server is ready; otherwise it sends SIGKILL to the spawned process,
\* if that has a PID, and throws.
SetupEnd ==
  /\ setupAt = "waiting"
  /\ returned # "none"
  /\ IF returned = "true"
       THEN /\ setupAt' = "returned"
            /\ UNCHANGED <<child, setupSent>>
       ELSE /\ setupAt' = "threw"
            /\ setupSent' = IF pidRecorded = "pid" THEN Append(setupSent, "SIGKILL")
                                                   ELSE setupSent
            /\ child' = IF Alive(child) THEN "exited" ELSE child
  /\ UNCHANGED <<testEnv, overridden, pidRecorded, answeredBy, teardownAt, sent,
                 probe, pollVars, coreVars, serverVars, vercelVars,
                 corsVars>>

\* The spawned server has started: it listens and answers /health.
ChildReady ==
  /\ child = "starting"
  /\ child' = "ready"
  /\ UNCHANGED <<testEnv, overridden, setupAt, pidRecorded, answeredBy, setupSent,
                 teardownAt, sent, probe, pollVars, coreVars, serverVars, vercelVars,
                 corsVars>>

\* The spawned server exits: it failed to start, or it was told to stop.
ChildExits ==
  /\ Alive(child)
  /\ child' = "exited"
  /\ UNCHANGED <<testEnv, overridden, setupAt, pidRecorded, answeredBy, setupSent,
                 teardownAt, sent, probe, pollVars, coreVars, serverVars, vercelVars,
                 corsVars>>

\* globalTeardown() up to its first await or its end: in express:ci with a
\* recorded PID it sends SIGTERM and starts the grace wait; when that kill
\* throws (no such process) it logs, runs pkill and removes the PID; without
\* a PID it removes the property; elsewhere it does nothing.
TeardownBegin ==
  /\ setupAt \in {"returned", "threw"}
  /\ teardownAt = "idle"
  /\ IF ManagesServer(testEnv)
       THEN IF pidRecorded = "pid"
              THEN /\ sent' = Append(sent, "SIGTERM")
                   /\ IF Alive(child)
                        THEN /\ teardownAt' = "grace"
                             /\ UNCHANGED pidRecorded
                        ELSE /\ teardownAt' = "done"
                             /\ pidRecorded' = "absent"
              ELSE /\ teardownAt' = "done"
                   /\ pidRecorded' = "absent"
                   /\ UNCHANGED sent
       ELSE /\ teardownAt' = "done"
            /\ UNCHANGED <<pidRecorded, sent>>
  /\ UNCHANGED <<testEnv, overridden, setupAt, child, answeredBy, setupSent,
                 probe, pollVars, coreVars, serverVars, vercelVars,
                 corsVars>>

\* globalTeardown() after the grace wait: the process is probed with signal
\* 0 and sent SIGKILL if it still exists; then pkill is run and the PID is
\* removed from the global state.
TeardownEnd ==
  /\ teardownAt = "grace"
  /\ probe' = IF Alive(child) THEN "exists" ELSE "gone"
  /\ IF ForceKills(Alive(child))
       THEN /\ sent' = Append(sent, "SIGKILL")
            /\ child' = IF Alive(child) THEN "exited" ELSE child
       ELSE UNCHANGED <<sent, child>>
  /\ pidRecorded' = "absent"
  /\ teardownAt' = "done"
  /\ UNCHANGED <<testEnv, overridden, setupAt, answeredBy, setupSent,
                 pollVars, coreVars, serverVars, vercelVars,
                 corsVars>>

NextGlobal ==
  \/ \E hasPid \in BOOLEAN : SetupBegin(hasPid)
  \/ SetupPoll
  \/ SetupEnd
  \/ ChildReady
  \/ ChildExits
  \/ TeardownBegin
  \/ TeardownEnd

SpecGlobal == InitGlobal /\ [][NextGlobal]_vars

(***************************************************************************)
(* A test process that builds its client and asks whether CORS headers are *)
(* expected.                                                               *)
(***************************************************************************)
InitCors ==
  /\ dep = [exported |-> Symbols, fault |-> "none"]
  /\ ProbeStart
  /\ RunStart
  /\ compiles = Baseline
  /\ StaticStart
  /\ RegistryStart
  /\ ServerIdle
  /\ SessionIdle
  /\ VercelStart
  /\ PollIdle
  /\ \E name \in EnvironmentNames : \E port \in PortSettings :
       \E base \in BaseUrlSettings :
         /\ GlobalStart(name, base.set)
         /\ CorsStart(port, base)

Environment == getCurrentEnvironment(testEnv, httpTestPort, testBaseUrl)

CreateHttpClient ==
  /\ ~origin.built
  /\ origin' = [built |-> TRUE, header |-> createHttpClient(Environment)]
  /\ UNCHANGED <<httpTestPort, testBaseUrl, expects>>

ExpectsCorsHeaders ==
  /\ expects = "none"
  /\ expects' = IF expectsCorsHeaders(Environment, httpTestPort) THEN "true" ELSE "false"
  /\ UNCHANGED <<httpTestPort, testBaseUrl, origin>>

NextCors ==
  /\ CreateHttpClient \/ ExpectsCorsHeaders
  /\ UNCHANGED <<coreVars, serverVars, vercelVars, pollVars, globalVars>>

SpecCors == InitCors /\ [][NextCors]_vars

(***************************************************************************)
(* Properties of the runtime probes (checked under Spec).                  *)
(***************************************************************************)
Done(e) == status[e] # "none"

AllDone == \A f \in Files : ~Running(f)

\* The assertions of entry e the dependency d violates, were each evaluated
\* (an assertion that never settles is not counted).
Violated(e, d) ==
  { i \in 1..Len(StepsOf(e)) :
      LET s == StepsOf(e)[i]
          b == Behaviour(s, d)
      IN b.kind # "hangs" /\ (b.kind # s.exp \/ ~b.ok) }

Hanging(e, d) ==
  { i \in 1..Len(StepsOf(e)) : Behaviour(StepsOf(e)[i], d).kind = "hangs" }

\* The status of every entry in a run against every dependency.
RefStatuses ==
  [d \in Dependencies |->
     [e \in EntryIds |->
        IF Violated(e, d) \cup Hanging(e, d) = {} THEN "pass" ELSE "fail"]]

\* The status of entry e in a run against dependency d.
RefStatus(e, d) == RefStatuses[d][e]

\* Dependency d with symbol y exported.
WithSymbol(d, y) == [d EXCEPT !.exported = @ \cup {y}]

SymbolMissing(e) ==
  EntryOf(e).symbol # NoSymbol /\ EntryOf(e).symbol \notin dep.exported

HasNote(e, n) == \E j \in DOMAIN failures[e] : failures[e][j].note = n

HasDiagnostic(e, i) ==
  \E j \in DOMAIN failures[e] :
     failures[e][j].assertion = i /\ failures[e][j].note # "timed out"

Min(S) == CHOOSE x \in S : \A y \in S : x <= y

\* Every worker that has entries left can take a step.
NeverStuck == \A f \in Files : Running(f) => ENABLED Step(f)

C2_OutcomeMatching_AsStated ==
  \A e \in EntryIds : \A i \in 1..settled[e] :
     LET s == StepsOf(e)[i]
     IN ~Unresolved(s, dep) =>
          (HasDiagnostic(e, i) <=> Behaviour(s, dep).kind # s.exp)

InitializeEntry == <<"interface", 17>>

\* C2 amended: a diagnostic is recorded for an assertion iff the actual
\* outcome kind differs from the expected kind or the outcome is of the
\* expected kind but fails the matcher; initialize() expected to reject and
\* seen to resolve fails the entry with an expected-rejects/actual-resolves
\* diagnostic, and the expected rejection leaves no diagnostic.
C2_OutcomeMatching ==
  /\ \A e \in EntryIds : \A i \in 1..settled[e] :
       LET s == StepsOf(e)[i]
           b == Behaviour(s, dep)
       IN HasDiagnostic(e, i) <=> (b.kind # s.exp \/ ~b.ok)
  /\ (Done(InitializeEntry) /\ "LLMManager" \in dep.exported) =>
       /\ dep.fault = "init_resolves" =>
            /\ status[InitializeEntry] = "fail"
            /\ \E j \in DOMAIN failures[InitializeEntry] :
                 /\ failures[InitializeEntry][j].expected = "rejects"
                 /\ failures[InitializeEntry][j].actual = "resolves"
       /\ dep.fault \notin {"init_resolves", "init_other_msg", "init_hangs"} =>
            /\ status[InitializeEntry] = "pass"
            /\ failures[InitializeEntry] = << >>

\* initialize() resolved where a rejection was expected, and the entry failed.
C2_Witness ==
  /\ dep.fault = "init_resolves"
  /\ status[InitializeEntry] = "fail"
  /\ settled[InitializeEntry] = 3

Increasing(fs) ==
  \A j \in DOMAIN fs : \A k \in DOMAIN fs : j < k => fs[j].assertion < fs[k].assertion

C4_StrictSequencing ==
  /\ \A e \in EntryIds : invoked[e] <= settled[e] + 1
  /\ \A f \in Files :
       LET e == <<f, cur[f]>>
       IN Running(f) =>
            IF pending[f] # 0
              THEN invoked[e] = settled[e] + 1 /\ pending[f] = next[f] /\ next[f] = invoked[e]
              ELSE invoked[e] = settled[e] /\ next[f] = invoked[e] + 1

\* Entries of the two files interleave: each file has an awaited assertion
\* pending at the same time.
C4_Witness ==
  /\ pending["interface"] # 0
  /\ pending["types"] # 0

\* C10: an entry whose assertion does not settle within the bound fails with
\* a "timed out" diagnostic, no later assertion of it is invoked, the
\* assertion is invoked once, and the other entries still get their results.
C10_Timeout ==
  /\ NeverStuck
  /\ AllDone => \A o \in EntryIds : Done(o)
  /\ \A e \in timedOut :
       LET n == Len(failures[e])
       IN /\ status[e] = "fail"
          /\ n >= 1
          /\ failures[e][n].note = "timed out"
          /\ invoked[e] = failures[e][n].assertion
          /\ settled[e] = invoked[e] - 1
          /\ failures[e][n].assertion < Len(StepsOf(e)) =>
               \A f \in Files : (Running(f) /\ f = e[1]) => cur[f] # e[2]

\* The call() entry timed out with later assertions left, and every entry
\* after it has its result.
C10_Witness ==
  /\ AllDone
  /\ <<"interface", 11>> \in timedOut
  /\ status[<<"interface", 12>>] = "pass"
  /\ status[<<"interface", 19>>] = "pass"

(***************************************************************************)
(* Properties of the static shape check (checked under SpecStatic).        *)
(***************************************************************************)
Verified(k) == k < unitIdx

\* The unit written under the @ts-expect-error directive.
ExpectErrorUnit == CHOOSE k \in UnitIds : TypeCheckUnits[k].expectError

Current(e) == Running(e[1]) /\ cur[e[1]] = e[2]

\* C11: under every interleaving of the two workers the report holds one
\* result per entry that has ended and none for another; a result in the
\* report is whole (the entry has ended, the result carries its final status
\* and failures); and a result in the report is never changed or removed.
C11_ReportAssembly ==
  /\ [](\A r \in report :
          /\ r.entry \in EntryIds
          /\ Done(r.entry)
          /\ ~Current(r.entry)
          /\ r.status = status[r.entry]
          /\ r.failures = failures[r.entry]
          /\ r.status = "pass" <=> r.failures = << >>)
  /\ [](\A e \in EntryIds :
          Cardinality({r \in report : r.entry = e}) = IF Done(e) THEN 1 ELSE 0)
  /\ [](AllDone => Cardinality(report) = Cardinality(EntryIds))
  /\ [][report \subseteq report']_vars

\* Both workers have added results to the report, a failed one among them,
\* and both still have entries to run.
C11_Witness ==
  /\ \A f \in Files : Running(f)
  /\ \E r1 \in report : r1.entry[1] = "interface" /\ r1.status = "fail"
  /\ \E r2 \in report : r2.entry[1] = "types"

UniqueSymbolPaths ==
  \A e1 \in EntryIds : \A e2 \in EntryIds :
     SymbolPath(e1) = SymbolPath(e2) => e1 = e2

ProbedNames == ToolNamesOf(TestTools) \cup {"nonexistent"}

Happened(kind, s) == \E i \in DOMAIN events : events[i] = <<kind, s>>

LastEvent == IF events = << >> THEN <<"none", "none">> ELSE events[Len(events)]

StartupOver == pc > Len(StepsFor(entryPoint))

BasicAndCanaryNames == names(basicTools) \cup names(createCanaryTools)

\* C16: when llmManager.initialize() rejects, in both entry points the
\* rejection does not leave the function, the next step is
\* setupMCPServerWithRegistry, a startup in which nothing else throws hands a
\* registry to setupMCPServerWithRegistry and to transportManager.initialize,
\* and a registry handed to them holds the basic and canary tools and no LLM
\* tool.
C16_LLMFailureNotFatal ==
  llmRejects =>
    /\ ~Happened("throw", "llm")
    /\ (LastEvent = <<"caught", "llm">> /\ result = "running") =>
          /\ StepsFor(entryPoint)[pc] = "setup"
          /\ ENABLED StartupBegin
    /\ (StartupOver /\ failAt = "none") => (setupArg # << >> /\ transportArg # << >>)
    /\ \A arg \in {setupArg, transportArg} :
         arg # << >> =>
            /\ names(arg[1]) = BasicAndCanaryNames
            /\ names(arg[1]) \cap names(llmTools) = {}

\* initializeServer() has ended after a rejected LLM initialization, with the
\* registry handed to the transport.
C16_Witness ==
  /\ llmRejects
  /\ entryPoint = "vercel"
  /\ result = "initialized"
  /\ Happened("caught", "llm")
  /\ transportArg = << StartupRegistry >>

\* The events are those of the steps of the entry point, in the order of the
\* steps, each step beginning after the one before it is over.
InStepOrder ==
  \A i \in DOMAIN events :
     LET s == StepsFor(entryPoint)[(i + 1) \div 2]
     IN IF i % 2 = 1
          THEN events[i] = <<"begin", s>>
          ELSE events[i] \in {<<"end", s>>, <<"caught", s>>, <<"throw", s>>}

\* C18: in main() the steps happen in the order basic tools merged, canary
\* tools merged, LLM initialization attempted, setupMCPServerWithRegistry,
\* transportManager.initialize(server, toolRegistry), transportManager.start,
\* registration of the signal handlers, each beginning after the one before
\* it is over; only a failure of the LLM step is caught; and when another
\* step throws, no step begins after it (transportManager.start is not
\* reached afterwards) and the process exits with code 1.
C18_StartupOrder ==
  entryPoint = "main" =>
    /\ InStepOrder
    /\ Len(events) <= 2 * Len(MainSteps)
    /\ \A i \in DOMAIN events :
         /\ events[i][1] = "caught" => events[i][2] = "llm"
         /\ events[i][1] = "throw" =>
              /\ i = Len(events)
              /\ events[i][2] # "llm"
              /\ result = "exit1"
    /\ Happened("begin", "initTransport") => transportArg = << toolRegistry >>
    /\ handlersOn => Happened("end", "start")
    /\ failAt \notin {"none", "start", "ready", "handlers"} => ~Happened("begin", "start")

\* transportManager.initialize threw after a caught LLM failure: main exited
\* with code 1 before transportManager.start.
C18_Witness ==
  /\ entryPoint = "main"
  /\ Happened("caught", "llm")
  /\ Happened("end", "setup")
  /\ LastEvent = <<"throw", "initTransport">>
  /\ result = "exit1"

StopsIn(st) == { k \in DOMAIN stops : stops[k] = st }

C20_LoggerProvider_AsStated ==
  /\ Happened("begin", "logger") =>
       (loggerInits = 1 <=> ~startProvider.initialized)
  /\ ~Happened("begin", "logger") => (loggerInits = 0 /\ toolRegistry = NewToolRegistry)
  /\ loggerInits <= 1
  /\ startProvider.initialized => loggerInits = 0

\* C24 as stated: transportManager.stop() is invoked at most once per
\* process, even when SIGINT and SIGTERM are both delivered, or one of them
\* again, before the first shutdown has finished.
C24_ShutdownOnce_AsStated == Len(stops) <= 1

Invoked == { h \in 1..MaxInvocations : invocation[h].at # "idle" }

\* The invocations that arrived after an initialization had completed.
Later == { h \in Invoked : invocation[h].after > 0 }

AllNull == cache = EmptyCache

AllSet ==
  /\ cache.serverInstance # Null
  /\ cache.transportInstance # Null
  /\ cache.toolRegistry # NullRef

\* Invocation h is answered with status 500 in this step.
Answers500(h) == invocation[h].status # 500 /\ invocation'[h].status = 500

\* C22: serverInstance, transportInstance and toolRegistry are either all
\* null or all set, and they are null exactly as long as no initialization
\* has completed; an initialization that throws leaves the three unchanged
\* and its request is answered with status 500, a request is answered 500
\* only then; a request that arrives while they are null runs
\* initialization again.
C22_AllOrNothing ==
  /\ [](/\ AllNull \/ AllSet
        /\ AllNull <=> completed = << >>
        /\ \A h \in Invoked :
             /\ invocation[h].status = 500 =>
                  /\ ~invocation[h].hit
                  /\ invocation[h].got = NoReturn
                  /\ "cache" \notin invocation[h].steps
                  /\ \A k \in DOMAIN completed : completed[k] # h
             /\ invocation[h].after = 0 =>
                  /\ ~invocation[h].hit
                  /\ invocation[h].steps # {})
  /\ [][\A h \in 1..MaxInvocations : Answers500(h) => cache' = cache]_vars

\* On a cold instance the first request was answered 500, the cache stayed
\* null, and the second request ran initialization again and set all three.
C22_Witness ==
  /\ invocation[1].status = 500
  /\ invocation[2].after = 0
  /\ invocation[2].status = 200
  /\ completed = << 2 >>
  /\ AllSet
  /\ cache.toolRegistry = Ref(invocation[2].registry)

\* C23 as stated: when several handler invocations overlap on a cold
\* instance, transportManager.initialize is executed at most once per
\* process and all requests end up using the same server and registry.
C23_SingleInitialization_AsStated ==
  /\ Cardinality(transportInits) <= 1
  /\ \A h, k \in Invoked :
       (invocation[h].status = 200 /\ invocation[k].status = 200) =>
         /\ invocation[h].got.server = invocation[k].got.server
         /\ invocation[h].got.registry = invocation[k].got.registry

(***************************************************************************)
(* Properties of the health polling (checked under SpecPollFair and        *)
(* SpecPoll).                                                              *)
(***************************************************************************)
Requests == { i \in DOMAIN trace : trace[i] # "delay" }

Delays == { i \in DOMAIN trace : trace[i] = "delay" }

Answered200 == { i \in DOMAIN trace : trace[i] = "200" }

\* C25: waitForServer and waitForServerReady each issue at most maxAttempts
\* GET /health requests and always terminate; they return true iff one of
\* those requests answered with status 200, stopping at the first such
\* answer, and return false after exactly maxAttempts attempts none of which
\* answered 200; no delay is taken after the last attempt.
C25_BoundedPolling ==
  /\ [](/\ Cardinality(Requests) <= maxAttempts
        /\ returned = "true" <=> Answered200 # {}
        /\ Answered200 \subseteq {Len(trace)}
        /\ returned = "false" =>
             /\ Cardinality(Requests) = maxAttempts
             /\ Answered200 = {}
        /\ Cardinality(Requests) = maxAttempts =>
             (trace # << >> => trace[Len(trace)] # "delay"))
  /\ <>(returned # "none")

\* waitForServerReady gave up after three attempts: two connection errors,
\* each followed by a delay, and a last one answered with another status
\* than 200.
C25_Witness ==
  /\ pollFn = "waitForServerReady"
  /\ maxAttempts = 3
  /\ returned = "false"
  /\ trace = << "error", "delay", "error", "delay", "non200" >>

\* C26 as stated: in waitForServerReady, between any two consecutive health
\* requests there is one delay of delayMs, whether the earlier request
\* failed with a connection error or was answered with a non-200 status
\* (so a server that never becomes ready is given up on after the
\* maxAttempts - 1 delays between maxAttempts requests at the earliest).
C26_Paced_AsStated ==
  pollFn = "waitForServerReady" =>
    /\ \A i \in Requests : (i + 1) \in DOMAIN trace => trace[i + 1] = "delay"
    /\ returned = "false" => Cardinality(Delays) >= maxAttempts - 1

C28_TeardownEscalation ==
  /\ ~ManagesServer(testEnv) => sent = << >>
  /\ sent \in { << >>, << "SIGTERM" >>, << "SIGTERM", "SIGKILL" >> }
  /\ (teardownAt # "idle" /\ child # "none") => sent # << >>
  /\ teardownAt = "grace" => (sent = << "SIGTERM" >> /\ pidRecorded = "pid")
  /\ sent = << "SIGTERM", "SIGKILL" >> <=> probe = "exists"
  /\ probe # "none" => teardownAt = "done"
  /\ (testEnv = "express:ci" /\ teardownAt = "done") => pidRecorded = "absent"

\* The server was still running after SIGTERM and the grace wait: the
\* teardown sent SIGKILL and removed the PID.
C28_Witness ==
  /\ testEnv = "express:ci"
  /\ setupAt = "returned"
  /\ teardownAt = "done"
  /\ sent = << "SIGTERM", "SIGKILL" >>
  /\ pidRecorded = "absent"
  /\ child = "exited"

(***************************************************************************)
(* Properties of the test utilities (checked under SpecCors).              *)
(***************************************************************************)
\* C29 as stated: for the express:ci environment with its own default base
\* URL (no TEST_BASE_URL override), expectsCorsHeaders returns true for
\* every setting of HTTP_TEST_PORT, including when it is unset; for express,
\* vercel:local, docker and stdio it returns false and for vercel:preview
\* and vercel:production it returns true.
C29_CorsExpectation_AsStated ==
  expects # "none" =>
    /\ (testEnv = "express:ci" /\ ~testBaseUrl.set) => expects = "true"
    /\ testEnv \in {"express", "vercel:local", "docker", "stdio"} => expects = "false"
    /\ testEnv \in {"vercel:preview", "vercel:production"} => expects = "true"

====
